---- MODULE Spec2Model ----
(***************************************************************************)
(* ANSI capability probe of crossterm: src/ansi_support.rs.                *)
(*                                                                         *)
(* The program state is the lazily initialised static                      *)
(* SUPPORTS_ANSI_ESCAPE_CODES (a std::sync::Once plus the cached bool),    *)
(* the position of every thread inside supports_ansi(), and the part of    *)
(* the host the code reads and writes: the TERM environment variable and   *)
(* the console behind the CONOUT$ handle.                                  *)
(***************************************************************************)
EXTENDS Integers, Sequences, FiniteSets, TLC

\* ------------------------------------------------------------- bounds
NumThreads == 2        \* threads that call supports_ansi()
MaxCalls == 3          \* calls of supports_ansi() over the process lifetime
NumTermStrings == 3    \* how many strings of TermPool TERM may hold
ModeWidth == 3         \* bits of the console mode that are modelled (a DWORD has 32)
MaxToggles == 2        \* direct calls of set_virtual_terminal_processing

Threads == 1..NumThreads

\* Option<T> / Result<T, _> as a sequence of length at most one.
None == << >>
Some(v) == << v >>

\* ------------------------------------------------------------- bit arithmetic
Modes == 0..(2^ModeWidth - 1)

Bit(n, i) == (n \div (2^i)) % 2

\* a | b on ModeWidth bits
BitOr(a, b) ==
    LET F[i \in 0..ModeWidth] ==
            IF i = 0 THEN 0
            ELSE F[i-1] + (2^(i-1)) * (IF Bit(a, i-1) = 1 \/ Bit(b, i-1) = 1 THEN 1 ELSE 0)
    IN F[ModeWidth]

\* a & b on ModeWidth bits
BitAnd(a, b) ==
    LET F[i \in 0..ModeWidth] ==
            IF i = 0 THEN 0
            ELSE F[i-1] + (2^(i-1)) * (IF Bit(a, i-1) = 1 /\ Bit(b, i-1) = 1 THEN 1 ELSE 0)
    IN F[ModeWidth]

\* !a on ModeWidth bits
BitNot(a) == (2^ModeWidth - 1) - a

\* winapi::um::wincon::ENABLE_VIRTUAL_TERMINAL_PROCESSING = 0x0004
ENABLE_VIRTUAL_TERMINAL_PROCESSING == 4

\* ------------------------------------------------------------- the TERM variable
\* The strings TERM is drawn from: "dumb", a listed terminal, the empty
\* string, a string that differs from "dumb" by case only, garbage.
TermPool == << "dumb", "xterm", "", "DUMB", "garbage", "bvterm" >>

TermStrings == { TermPool[i] : i \in 1..NumTermStrings }

NotPresent == [kind |-> "NotPresent", val |-> ""]
NotUnicode == [kind |-> "NotUnicode", val |-> ""]
Unicode(s) == [kind |-> "Unicode", val |-> s]

\* What the process environment can hold under the name TERM: nothing, a
\* value that is valid Unicode, or a value that is not.
TermStates == {NotPresent, NotUnicode} \cup { Unicode(s) : s \in TermStrings }

\* std::env::var("TERM"): Ok(val) for a value that is valid Unicode,
\* Err(NotPresent) or Err(NotUnicode) otherwise.
env_var(term) ==
    IF term.kind = "Unicode" THEN [ok |-> TRUE, val |-> term.val]
    ELSE [ok |-> FALSE, val |-> term.kind]

TERMS ==
    { "xterm", "rxvt", "eterm", "screen", "tmux",
      "vt100", "vt102", "vt220", "vt320",
      "ansi", "scoansi", "cygwin", "linux", "konsole", "bvterm" }

is_specific_term_no_list(term) ==
    LET r == env_var(term)
    IN IF r.ok THEN r.val # "dumb" ELSE FALSE

is_specific_term_eq(term) ==
    LET r == env_var(term)
    IN IF r.ok THEN (r.val = "dumb" \/ r.val \in TERMS) ELSE FALSE

is_specific_term_and(term) ==
    LET r == env_var(term)
    IN IF r.ok THEN (r.val # "dumb" /\ r.val \in TERMS) ELSE FALSE

is_specific_term(term) ==
    LET r == env_var(term)
    IN IF r.ok THEN (r.val # "dumb" \/ r.val \in TERMS) ELSE FALSE

\* ------------------------------------------------------------- the console
\* handle:   Handle::current_out_handle() succeeds
\* mode:     Some(m) when the mode read succeeds and yields m, None when it fails
\* writable: the mode write is accepted
\* Without a handle there is no mode to read, without a mode nothing to write.
ConsoleStates ==
    { [handle |-> FALSE, mode |-> None, writable |-> FALSE],
      [handle |-> TRUE, mode |-> None, writable |-> FALSE] }
    \cup { [handle |-> TRUE, mode |-> Some(m), writable |-> w] : m \in Modes, w \in BOOLEAN }

current_out_handle(con) == con.handle

mode(con) == con.mode

set_mode(con, new_mode) ==
    IF con.writable
    THEN [ok |-> TRUE, console |-> [con EXCEPT !.mode = Some(new_mode)]]
    ELSE [ok |-> FALSE, console |-> con]

\* ------------------------------------------------------------- the Mode Toggle
\* The outcome of one call: the Result (ok), the console afterwards, how
\* many mode reads it issued and the mode it wrote, if it wrote one.
ToggleOutcome(ok, con, reads, written) ==
    [ok |-> ok, console |-> con, reads |-> reads, written |-> written]

set_virtual_terminal_processing_always_write(yes, con) ==
    LET mask == ENABLE_VIRTUAL_TERMINAL_PROCESSING
    IN IF ~current_out_handle(con) THEN ToggleOutcome(FALSE, con, 0, None)
       ELSE IF mode(con) = None THEN ToggleOutcome(FALSE, con, 1, None)
       ELSE LET old_mode == mode(con)[1]
                new_mode == IF yes THEN BitOr(old_mode, mask)
                                   ELSE BitAnd(old_mode, BitNot(mask))
                w == set_mode(con, new_mode)
            IN ToggleOutcome(w.ok, w.console, 1, Some(new_mode))

set_virtual_terminal_processing_mask_only(yes, con) ==
    LET mask == ENABLE_VIRTUAL_TERMINAL_PROCESSING
    IN IF ~current_out_handle(con) THEN ToggleOutcome(FALSE, con, 0, None)
       ELSE IF mode(con) = None THEN ToggleOutcome(FALSE, con, 1, None)
       ELSE LET old_mode == mode(con)[1]
                new_mode == IF yes THEN mask
                                   ELSE BitAnd(old_mode, BitNot(mask))
            IN IF old_mode # new_mode
               THEN LET w == set_mode(con, new_mode)
                    IN ToggleOutcome(w.ok, w.console, 1, Some(new_mode))
               ELSE ToggleOutcome(TRUE, con, 1, None)

set_virtual_terminal_processing_write_blind(yes, con) ==
    LET mask == ENABLE_VIRTUAL_TERMINAL_PROCESSING
        old_mode == IF mode(con) = None THEN 0 ELSE mode(con)[1]
        new_mode == IF yes THEN BitOr(old_mode, mask)
                           ELSE BitAnd(old_mode, BitNot(mask))
        w == set_mode(con, new_mode)
    IN ToggleOutcome(current_out_handle(con) /\ w.ok, w.console,
                     IF current_out_handle(con) THEN 1 ELSE 0, Some(new_mode))

set_virtual_terminal_processing_clear_all(yes, con) ==
    LET mask == ENABLE_VIRTUAL_TERMINAL_PROCESSING
    IN IF ~current_out_handle(con) THEN ToggleOutcome(FALSE, con, 0, None)
       ELSE IF mode(con) = None THEN ToggleOutcome(FALSE, con, 1, None)
       ELSE LET old_mode == mode(con)[1]
                new_mode == IF yes THEN BitOr(old_mode, mask)
                                   ELSE BitAnd(old_mode, mask)
            IN IF old_mode # new_mode
               THEN LET w == set_mode(con, new_mode)
                    IN ToggleOutcome(w.ok, w.console, 1, Some(new_mode))
               ELSE ToggleOutcome(TRUE, con, 1, None)

set_virtual_terminal_processing(yes, con) ==
    LET mask == ENABLE_VIRTUAL_TERMINAL_PROCESSING
    IN IF ~current_out_handle(con) THEN ToggleOutcome(FALSE, con, 0, None)
       ELSE IF mode(con) = None THEN ToggleOutcome(FALSE, con, 1, None)
       ELSE LET old_mode == mode(con)[1]
                new_mode == IF yes THEN BitOr(old_mode, mask)
                                   ELSE BitAnd(old_mode, BitNot(mask))
            IN IF old_mode # new_mode
               THEN LET w == set_mode(con, new_mode)
                    IN ToggleOutcome(w.ok, w.console, 1, Some(new_mode))
               ELSE ToggleOutcome(TRUE, con, 1, None)

\* ------------------------------------------------------------- the initializer
\* The block that initialises the static: its value, the console it
\* leaves, what is_specific_term() said, and the outcome of the toggle when
\* it called it.
SUPPORTS_ANSI_ESCAPE_CODES_unwrap_true(term, con) ==
    IF is_specific_term(term)
    THEN [value |-> TRUE, console |-> con, specific |-> TRUE, toggle |-> None]
    ELSE LET r == set_virtual_terminal_processing(TRUE, con)
         IN [value |-> TRUE, console |-> r.console, specific |-> FALSE, toggle |-> Some(r)]

SUPPORTS_ANSI_ESCAPE_CODES(term, con) ==
    IF is_specific_term(term)
    THEN [value |-> TRUE, console |-> con, specific |-> TRUE, toggle |-> None]
    ELSE LET r == set_virtual_terminal_processing(TRUE, con)
         IN [value |-> IF r.ok THEN TRUE ELSE FALSE,
             console |-> r.console, specific |-> FALSE, toggle |-> Some(r)]

\* ------------------------------------------------------------- state
VARIABLES
    TERM,       \* the TERM variable of the process environment
    console,    \* the console behind the standard-output console handle
    once,       \* the Once of the static: "incomplete", "running", "complete"
    cached,     \* the value of the static: None until initialised
    pc,         \* per thread: "idle", "deref" (in supports_ansi), "init" (in the initializer)
    rets,       \* the values supports_ansi() has returned so far
    nret,       \* how many calls of supports_ansi() have returned
    calls,      \* calls of supports_ansi() so far
    termSeen,   \* one entry per run of is_specific_term(): the TERM it read, what it said
    toggles,    \* calls of set_virtual_terminal_processing so far
    os,         \* console OS calls so far: handle acquisitions, mode reads, mode writes
    last,       \* the last call of set_virtual_terminal_processing: argument and outcome
    stale       \* a call after the first returned while a fresh evaluation would have
                \* given another value

vars == << TERM, console, once, cached, pc, rets, nret, calls, termSeen, toggles, os,
           last, stale >>

envVars == << TERM, console >>
threadVars == << once, cached, pc, rets, nret, calls, termSeen, stale >>
toggleVars == << toggles, os, last >>

Init ==
    /\ TERM \in TermStates
    /\ console \in ConsoleStates
    /\ once = "incomplete"
    /\ cached = None
    /\ pc = [t \in Threads |-> "idle"]
    /\ rets = {}
    /\ nret = 0
    /\ calls = 0
    /\ termSeen = << >>
    /\ toggles = 0
    /\ os = [handle |-> 0, get |-> 0, set |-> 0]
    /\ last = None
    /\ stale = FALSE

\* The bookkeeping of one call of set_virtual_terminal_processing(yes)
\* whose outcome is r.
Record(yes, r) ==
    /\ toggles' = toggles + 1
    /\ os' = [handle |-> os.handle + 1,
              get |-> os.get + r.reads,
              set |-> os.set + Len(r.written)]
    /\ last' = Some([yes |-> yes, ok |-> r.ok, written |-> r.written])

\* ------------------------------------------------------------- supports_ansi()
\* A thread enters supports_ansi() and dereferences the static.
Call(t) ==
    /\ pc[t] = "idle"
    /\ calls < MaxCalls
    /\ pc' = [pc EXCEPT ![t] = "deref"]
    /\ calls' = calls + 1
    /\ UNCHANGED << envVars, once, cached, rets, nret, termSeen, stale, toggleVars >>

BeginInit_no_exclusion(t) ==
    /\ pc[t] = "deref"
    /\ once # "complete"
    /\ once' = "running"
    /\ pc' = [pc EXCEPT ![t] = "init"]
    /\ UNCHANGED << envVars, cached, rets, nret, calls, termSeen, stale, toggleVars >>

BeginInit_retry_on_false(t) ==
    /\ pc[t] = "deref"
    /\ once = "incomplete" \/ (once = "complete" /\ cached = Some(FALSE))
    /\ once' = "running"
    /\ pc' = [pc EXCEPT ![t] = "init"]
    /\ UNCHANGED << envVars, cached, rets, nret, calls, termSeen, stale, toggleVars >>

\* Once::call_once: the one thread that finds the Once incomplete runs the
\* initializer; the others wait in "deref" until it is complete.
BeginInit(t) ==
    /\ pc[t] = "deref"
    /\ once = "incomplete"
    /\ once' = "running"
    /\ pc' = [pc EXCEPT ![t] = "init"]
    /\ UNCHANGED << envVars, cached, rets, nret, calls, termSeen, stale, toggleVars >>

\* The initializer: is_specific_term(), then the toggle when it said no;
\* the value is stored and the Once completed.
Evaluate(t) ==
    /\ pc[t] = "init"
    /\ LET r == SUPPORTS_ANSI_ESCAPE_CODES(TERM, console)
       IN /\ cached' = Some(r.value)
          /\ console' = r.console
          /\ IF r.toggle = None
             THEN UNCHANGED toggleVars
             ELSE Record(TRUE, r.toggle[1])
          /\ termSeen' = Append(termSeen, [term |-> TERM, specific |-> r.specific])
    /\ once' = "complete"
    /\ pc' = [pc EXCEPT ![t] = "deref"]
    /\ UNCHANGED << TERM, rets, nret, calls, stale >>

Return_reevaluate(t) ==
    /\ pc[t] = "deref"
    /\ once = "complete"
    /\ LET r == SUPPORTS_ANSI_ESCAPE_CODES(TERM, console)
       IN /\ rets' = rets \cup {r.value}
          /\ console' = r.console
          /\ IF r.toggle = None
             THEN UNCHANGED toggleVars
             ELSE Record(TRUE, r.toggle[1])
          /\ termSeen' = Append(termSeen, [term |-> TERM, specific |-> r.specific])
    /\ nret' = nret + 1
    /\ stale' = stale
    /\ pc' = [pc EXCEPT ![t] = "idle"]
    /\ UNCHANGED << TERM, once, cached, calls >>

\* supports_ansi() returns the value of the initialised static.
Return(t) ==
    /\ pc[t] = "deref"
    /\ once = "complete"
    /\ rets' = rets \cup {cached[1]}
    /\ nret' = nret + 1
    /\ stale' = (stale \/ (nret >= 1 /\ SUPPORTS_ANSI_ESCAPE_CODES(TERM, console).value # cached[1]))
    /\ pc' = [pc EXCEPT ![t] = "idle"]
    /\ UNCHANGED << envVars, once, cached, calls, termSeen, toggleVars >>

\* ------------------------------------------------------------- the host
\* The environment variable is set, changed or removed.
SetTerm(v) ==
    /\ v # TERM
    /\ TERM' = v
    /\ UNCHANGED << console, threadVars, toggleVars >>

\* The console is detached, attached, reconfigured by another program, or
\* starts or stops accepting mode reads and writes.
ConsoleChange(c) ==
    /\ c # console
    /\ console' = c
    /\ UNCHANGED << TERM, threadVars, toggleVars >>

\* ------------------------------------------------------------- direct use of the toggle
\* Code of the crate calls set_virtual_terminal_processing(yes).
Toggle(yes) ==
    /\ toggles < MaxToggles
    /\ LET r == set_virtual_terminal_processing(yes, console)
       IN /\ console' = r.console
          /\ Record(yes, r)
    /\ UNCHANGED << TERM, threadVars >>

\* ------------------------------------------------------------- specifications
Next ==
    \/ \E t \in Threads : Call(t)
    \/ \E t \in Threads : BeginInit(t)
    \/ \E t \in Threads : Evaluate(t)
    \/ \E t \in Threads : Return(t)
    \/ \E v \in TermStates : SetTerm(v)
    \/ \E c \in ConsoleStates : ConsoleChange(c)

Spec == Init /\ [][Next]_vars

NextToggle ==
    \/ \E yes \in BOOLEAN : Toggle(yes)
    \/ \E c \in ConsoleStates : ConsoleChange(c)

SpecToggle == Init /\ [][NextToggle]_vars

TypeOK ==
    /\ TERM \in TermStates
    /\ console \in ConsoleStates
    /\ once \in {"incomplete", "running", "complete"}
    /\ cached \in {None, Some(TRUE), Some(FALSE)}
    /\ pc \in [Threads -> {"idle", "deref", "init"}]
    /\ rets \subseteq BOOLEAN
    /\ nret \in 0..calls
    /\ calls \in 0..MaxCalls
    /\ toggles \in Nat

\* ------------------------------------------------------------- properties
NoOsCalls == [handle |-> 0, get |-> 0, set |-> 0]

\* The virtual-terminal-processing bit of a console mode.
HasVT(m) == (m \div ENABLE_VIRTUAL_TERMINAL_PROCESSING) % 2 = 1

\* Mode n is mode m with the virtual-terminal-processing bit set to b and
\* every other bit as in m.
SameButVT(m, n, b) ==
    \A i \in 0..(ModeWidth - 1) :
        Bit(n, i) = IF 2^i = ENABLE_VIRTUAL_TERMINAL_PROCESSING
                    THEN (IF b THEN 1 ELSE 0)
                    ELSE Bit(m, i)

\* A step that is one call of set_virtual_terminal_processing.
ToggleStep == toggles' = toggles + 1

C2_SameValueEveryCall ==
    /\ [](/\ Cardinality(rets) <= 1
          /\ rets # {} => (once = "complete" /\ rets = {cached[1]})
          /\ Len(termSeen) <= 1)
    /\ [][once = "complete" => UNCHANGED << once, cached, termSeen, toggles, os, last >>]_vars

\* A call after the first has returned the cached value although TERM or
\* the console had changed so that a fresh evaluation would have differed.
C2_Witness ==
    /\ stale
    /\ nret >= 2
    /\ Cardinality(rets) = 1
    /\ termSeen[1].term # TERM

\* C3: when TERM is unset or "dumb", the first supports_ansi() calls the
\* Mode Toggle with enable = true and its value is true exactly when the
\* toggle succeeded; a failed toggle (handle, mode read or mode write)
\* becomes the value false, so that supports_ansi() always yields a boolean.
C3_FallbackToToggle ==
    \A i \in 1..Len(termSeen) :
        termSeen[i].term \in {NotPresent, Unicode("dumb")}
            => /\ toggles = 1
               /\ os.handle = 1
               /\ last # None
               /\ last[1].yes
               /\ cached = Some(last[1].ok)
               /\ rets \subseteq {last[1].ok}

\* TERM was "dumb", the toggle failed, and supports_ansi() returned false.
C3_Witness ==
    /\ Len(termSeen) = 1
    /\ termSeen[1].term = Unicode("dumb")
    /\ last # None
    /\ ~last[1].ok
    /\ rets = {FALSE}

\* C4: concurrent first callers cause exactly one evaluation of the probing
\* logic (one TERM read, at most one toggle, at most one mode write) under
\* every interleaving, and every value returned is the same.
C4_OneEvaluation ==
    /\ Len(termSeen) <= 1
    /\ toggles <= 1
    /\ os.set <= 1
    /\ Cardinality({t \in Threads : pc[t] = "init"}) <= 1
    /\ (\E t \in Threads : pc[t] = "init") <=> once = "running"
    /\ once = "complete" <=> Len(termSeen) = 1
    /\ nret > 0 => Len(termSeen) = 1
    /\ Cardinality(rets) <= 1

\* Two threads are inside their first supports_ansi() at the same time, one
\* of them has run the initializer (with its toggle and mode write), and
\* neither has returned yet.
C4_Witness ==
    /\ \E t1, t2 \in Threads : t1 # t2 /\ pc[t1] = "deref" /\ pc[t2] = "deref"
    /\ calls = 2
    /\ nret = 0
    /\ once = "complete"
    /\ Len(termSeen) = 1
    /\ toggles = 1
    /\ os.set = 1

\* C5: set_virtual_terminal_processing(enable), called when the console mode
\* already has the virtual-terminal-processing bit in the requested state,
\* issues no mode write, leaves the console mode unchanged and reports
\* success.
C5_NoWriteWhenAlreadySet ==
    [][(ToggleStep /\ console.mode # None /\ HasVT(console.mode[1]) = last'[1].yes)
       => /\ last'[1].ok
          /\ last'[1].written = None
          /\ os'.set = os.set
          /\ console' = console]_vars

\* The toggle was asked to disable on a mode without the bit: success, and
\* nothing written.
C5_Witness ==
    /\ last = Some([yes |-> FALSE, ok |-> TRUE, written |-> None])
    /\ console.mode # None
    /\ ~HasVT(console.mode[1])
    /\ os.set = 0

\* C6: set_virtual_terminal_processing(true), called with a valid console
\* whose mode lacks the virtual-terminal-processing bit, computes the old
\* mode with that bit set and every other bit kept, and issues exactly one
\* mode write with that value.
C6_EnableWritesOldOrBit ==
    [][(ToggleStep /\ last'[1].yes /\ console.handle
            /\ console.mode # None /\ ~HasVT(console.mode[1]))
       => /\ last'[1].written # None
          /\ SameButVT(console.mode[1], last'[1].written[1], TRUE)
          /\ last'[1].written[1] = console.mode[1] + ENABLE_VIRTUAL_TERMINAL_PROCESSING
          /\ os'.set = os.set + 1
          /\ last'[1].ok => console'.mode = last'[1].written]_vars

\* The toggle enabled the bit on a mode that had other bits set, with one
\* write.
C6_Witness ==
    /\ last # None
    /\ last[1].yes
    /\ last[1].ok
    /\ last[1].written # None
    /\ last[1].written[1] > ENABLE_VIRTUAL_TERMINAL_PROCESSING
    /\ toggles = 1
    /\ os.set = 1

\* C7: when the standard-output console handle is missing or invalid,
\* set_virtual_terminal_processing reports failure and attempts no mode
\* read and no mode write, leaving the console as it was.
C7_NoHandleNoWrite ==
    [][(ToggleStep /\ ~console.handle)
       => /\ ~last'[1].ok
          /\ last'[1].written = None
          /\ os'.get = os.get
          /\ os'.set = os.set
          /\ console' = console]_vars

\* The toggle was called without a console handle and failed before any
\* mode read.
C7_Witness ==
    /\ last # None
    /\ ~last[1].ok
    /\ last[1].written = None
    /\ toggles = 1
    /\ os = [handle |-> 1, get |-> 0, set |-> 0]
    /\ ~console.handle

C9_SuccessSetsOnlyTheBit ==
    [][(ToggleStep /\ last'[1].ok)
       => /\ console.mode # None
          /\ console'.mode # None
          /\ HasVT(console'.mode[1]) = last'[1].yes
          /\ SameButVT(console.mode[1], console'.mode[1], last'[1].yes)]_vars

\* The toggle cleared the bit with a write and left other bits set.
C9_Witness ==
    /\ last # None
    /\ ~last[1].yes
    /\ last[1].ok
    /\ last[1].written # None
    /\ last[1].written[1] > 0
    /\ console.mode = last[1].written

====
